---- MODULE Spec2Model ----
(***************************************************************************)
(* Model of src/src/copy.ts: the rsync-availability cache (detectRsync,    *)
(* resetRsyncCache, setRsyncAvailable) and syncDirectory with its two copy *)
(* strategies (copyWithRsync, copyWithNodeFs) and the failure cleanup.     *)
(*                                                                         *)
(* Paths handed to the program are character strings (sequences of one-    *)
(* character strings).  The filesystem is a function from component        *)
(* sequences to nodes.  JavaScript runs a function to completion between   *)
(* awaits: the synchronous stretches of syncDirectory are sequences of     *)
(* steps during which no other operation is enabled (InSyncSection).       *)
(***************************************************************************)
EXTENDS Naturals, Sequences, FiniteSets, TLC

VARIABLES
    fs,              \* the filesystem: [Paths -> Nodes]
    installed,       \* whether an rsync binary is on the host (fixed)
    rsyncAvailable,  \* copy.ts:7, "null" | "true" | "false"
    source, target,  \* the arguments of syncDirectory (raw strings)
    pc,              \* position of the syncDirectory call
    hasRsync,        \* copy.ts:112, local of the running call
    result,          \* method returned by the call, or "none"
    thrown,          \* error the call rejected with, or "none"
    rsyncErr,        \* error caught at copy.ts:119, or "none"
    fbErr,           \* error caught at copy.ts:130, or "none"
    cleanup,         \* what the cleanup at copy.ts:132-143 did
    debugLog,        \* messages given to logDebug by the running call
    errorLog,        \* messages given to logError by the running call
    rsyncCalls,      \* copyWithRsync invocations of the running call
    fsCalls,         \* copyWithNodeFs invocations of the running call
    fs0,             \* the filesystem when the running call started
    calls,           \* syncDirectory calls started so far
    firstContents,   \* what the first call left at the target, if it succeeded
    det,             \* direct callers of detectRsync: position and result
    forced,          \* value the last reset ("null") or override gave the cache
    writes,          \* cache writes by probes since the last reset or override
    overlap          \* whether probes writing since then ran concurrently

vars == <<fs, installed, rsyncAvailable, source, target, pc, hasRsync, result,
          thrown, rsyncErr, fbErr, cleanup, debugLog, errorLog, rsyncCalls,
          fsCalls, fs0, calls, firstContents, det, forced, writes, overlap>>

\* The history of the cache: what the program does not store
history == <<forced, writes, overlap>>

-----------------------------------------------------------------------------
(* Bounds *)

\* syncDirectory calls made one after the other with the same arguments
MaxCalls == 2

-----------------------------------------------------------------------------
(* Strings and paths *)

\* path.sep on POSIX
Sep == "/"

\* String.prototype.startsWith
StartsWith(s, prefix) ==
    /\ Len(prefix) <= Len(s)
    /\ SubSeq(s, 1, Len(prefix)) = prefix

\* The segments of a string between separators, empty segments dropped
RECURSIVE SplitFrom(_, _, _)
SplitFrom(s, i, cur) ==
    IF i > Len(s)
    THEN IF cur = <<>> THEN <<>> ELSE <<cur>>
    ELSE IF s[i] = Sep
         THEN IF cur = <<>>
              THEN SplitFrom(s, i + 1, <<>>)
              ELSE <<cur>> \o SplitFrom(s, i + 1, <<>>)
         ELSE SplitFrom(s, i + 1, Append(cur, s[i]))

\* The components the kernel walks for an absolute path
Comps(s) == SplitFrom(s, 1, <<>>)

RECURSIVE JoinSegs(_)
JoinSegs(segs) ==
    IF segs = <<>> THEN <<>>
    ELSE <<Sep>> \o Head(segs) \o JoinSegs(Tail(segs))

\* path.resolve of an absolute path: repeated and trailing separators go,
\* the root stays "/"
Resolve(s) == IF Comps(s) = <<>> THEN <<Sep>> ELSE JoinSegs(Comps(s))

\* path.dirname: trailing separators are skipped, the string is cut before
\* the last separator that has a name after it; "/" when there is none
RECURSIVE DirnameScan(_, _, _)
DirnameScan(s, i, matchedSlash) ==
    IF i < 2 THEN <<Sep>>
    ELSE IF s[i] = Sep
         THEN IF ~matchedSlash
              THEN SubSeq(s, 1, i - 1)
              ELSE DirnameScan(s, i - 1, matchedSlash)
         ELSE DirnameScan(s, i - 1, FALSE)

Dirname(s) == DirnameScan(s, Len(s), TRUE)

IsProperPrefix(p, q) == Len(p) < Len(q) /\ SubSeq(q, 1, Len(p)) = p
IsPrefix(p, q) == Len(p) <= Len(q) /\ SubSeq(q, 1, Len(p)) = p

-----------------------------------------------------------------------------
(* The filesystem *)

A == <<"a">>
AB == <<"a", "b">>
B == <<"b">>
Names == {A, AB, B}

Paths ==
    {<<>>} \cup {<<n>> : n \in Names}
           \cup {<<n, m>> : n \in Names, m \in Names}
           \cup {<<n, m, k>> : n \in Names, m \in Names, k \in Names}

\* Relative paths inside a directory
Rels == {p \in Paths : Len(p) <= 2}

\* File contents
Contents == {"x", "y"}

\* A node: nothing, a directory, a regular file with its content, or a
\* symbolic link (every link of the model refers to LinkTarget)
Nodes == {"absent", "dir", "link"} \cup Contents

LinkTarget == <<B>>

ParentOf(p) == SubSeq(p, 1, Len(p) - 1)

WellFormed(f) ==
    /\ f[<<>>] = "dir"
    /\ \A p \in Paths \ {<<>>} : f[p] # "absent" => f[ParentOf(p)] = "dir"

\* Where a path leads once a symbolic link at it is followed
Follow(f, p) == IF f[p] = "link" THEN LinkTarget ELSE p

\* fs.existsSync / fs.statSync: follow links
ExistsSync(f, s) == f[Follow(f, Comps(s))] # "absent"
StatIsDirectory(f, s) == f[Follow(f, Comps(s))] = "dir"

\* fs.lstatSync: the entry itself
LstatIsLinkOrFile(f, s) == f[Comps(s)] \in {"link"} \cup Contents

\* The entries below directory p, by relative path ("absent" where p is no
\* directory or the path does not fit)
ContentsAt(f, p) ==
    [r \in Rels \ {<<>>} |->
        IF f[p] = "dir" /\ (p \o r) \in Paths THEN f[p \o r] ELSE "absent"]

\* What a reader sees through path s: the kind of the node and its entries
TreeAt(f, s) ==
    LET p == Follow(f, Comps(s))
    IN  [kind |-> f[p], entries |-> ContentsAt(f, p)]

-----------------------------------------------------------------------------
(* Filesystem primitives.  Each yields the set of outcomes the call can    *)
(* have: [ok |-> whether it returned, fs |-> the filesystem it leaves].    *)
(* Any of them can fail for reasons outside the model (permissions, I/O).  *)

Outcome(ok, f) == [ok |-> ok, fs |-> f]

\* The relative paths that fit below dst
RelsUnder(dst) == {r \in Rels : (dst \o r) \in Paths}

\* The entry of directory src at relative path r
EntryOf(f, src, r) == IF (src \o r) \in Paths THEN f[src \o r] ELSE "absent"

\* f with the entries K of dst replaced by those of src (read from f)
Overlay(f, src, dst, K) ==
    [q \in Paths |->
        IF \E r \in K : q = dst \o r
        THEN EntryOf(f, src, CHOOSE r \in K : q = dst \o r)
        ELSE f[q]]

\* fs.unlinkSync(p)
UnlinkSync(f, p) ==
    {Outcome(TRUE, [f EXCEPT ![p] = "absent"]), Outcome(FALSE, f)}

\* f without the entries R
Without(f, R) == [q \in Paths |-> IF q \in R THEN "absent" ELSE f[q]]

\* fs.rmSync(p, {recursive, force}): the whole tree goes, or the call throws
\* having removed some of the entries below p
RmSync(f, p) ==
    LET below == {q \in Paths : IsProperPrefix(p, q) /\ f[q] # "absent"}
    IN  {Outcome(TRUE, Without(f, below \cup {p}))}
        \cup {Outcome(FALSE, Without(f, R)) :
                R \in {S \in SUBSET below : WellFormed(Without(f, S))}}

\* fs.mkdirSync(p, {recursive: true}): every missing directory on the way to
\* p is made; throws when a component is no directory
MkdirSync(f, p) ==
    LET can == \A i \in 0..Len(p) : f[SubSeq(p, 1, i)] \in {"absent", "dir"}
        made == [q \in Paths |-> IF IsPrefix(q, p) THEN "dir" ELSE f[q]]
    IN  (IF can THEN {Outcome(TRUE, made)} ELSE {}) \cup {Outcome(FALSE, f)}

\* fs.cpSync(src, dst, {recursive: true}).  A missing source, a destination
\* inside the source, and a destination that is a file or a dangling link
\* make it throw at once.  Otherwise the source's entries are written over dst (entries of
\* dst that the source lacks stay); a failing copy stops part-way.
CpSync(f, src, dst) ==
    LET d == Follow(f, dst)
        entries == {r \in RelsUnder(d) : EntryOf(f, src, r) # "absent"}
        full == Overlay(f, src, d, entries)
        can == /\ f[src] = "dir"
               /\ ~IsPrefix(src, dst)
               /\ f[d] \in {"absent", "dir"}
               /\ (f[dst] = "link" => f[d] = "dir")
               /\ dst # <<>> /\ f[ParentOf(d)] = "dir"
               /\ WellFormed(full)
    IN  IF can
        THEN {Outcome(TRUE, full)}
             \cup {Outcome(FALSE, Overlay(f, src, d, K)) :
                     K \in {S \in SUBSET entries :
                             S # entries /\ WellFormed(Overlay(f, src, d, S))}}
        ELSE {Outcome(FALSE, f)}

\* The rsync process of copy.ts:41, `rsync -a --delete source/ target/`:
\* exit 0 leaves the target directory (through a link, if target is one) an
\* exact mirror of the source, made if it was absent.  It fails at once when
\* no rsync is installed or the target is a file or a dangling link; a
\* failing run may have mirrored any part of the entries.
RsyncProcess(f, src, dst, inst) ==
    LET d == Follow(f, dst)
        full == Overlay(f, src, d, RelsUnder(d))
        differing == {r \in RelsUnder(d) : EntryOf(f, src, r) # f[d \o r]}
        can == /\ inst
               /\ f[src] = "dir"
               /\ f[d] \in {"absent", "dir"}
               /\ (f[dst] = "link" => f[d] = "dir")
               /\ d # <<>> /\ f[ParentOf(d)] = "dir"
    IN  IF can
        THEN {Outcome(TRUE, full)}
             \cup {Outcome(FALSE, Overlay(f, src, d, K)) :
                     K \in {S \in SUBSET differing :
                             WellFormed(Overlay(f, src, d, S))}}
        ELSE {Outcome(FALSE, f)}

-----------------------------------------------------------------------------
(* The program *)

\* Validate without the check of copy.ts:108-110
ValidateNoSourceInside(f, s, t) ==
    IF ~ExistsSync(f, s) THEN "SourceNotFound"
    ELSE IF ~StatIsDirectory(f, s) THEN "SourceNotDirectory"
    ELSE IF StartsWith(Resolve(t), Resolve(s) \o <<Sep>>)
         THEN "TargetInsideSource"
    ELSE "ok"

\* Validate with the overlap checks made before the checks of the source
ValidateOverlapFirst(f, s, t) ==
    IF StartsWith(Resolve(t), Resolve(s) \o <<Sep>>)
    THEN "TargetInsideSource"
    ELSE IF StartsWith(Resolve(s), Resolve(t) \o <<Sep>>)
         THEN "SourceInsideTarget"
    ELSE IF ~ExistsSync(f, s) THEN "SourceNotFound"
    ELSE IF ~StatIsDirectory(f, s) THEN "SourceNotDirectory"
    ELSE "ok"

\* copy.ts:91-110, the checks of syncDirectory in their order: the error the
\* call throws, or "ok"
Validate(f, s, t) ==
    IF ~ExistsSync(f, s) THEN "SourceNotFound"
    ELSE IF ~StatIsDirectory(f, s) THEN "SourceNotDirectory"
    ELSE IF StartsWith(Resolve(t), Resolve(s) \o <<Sep>>)
         THEN "TargetInsideSource"
    ELSE IF StartsWith(Resolve(s), Resolve(t) \o <<Sep>>)
         THEN "SourceInsideTarget"
    ELSE "ok"

\* detectRsync without its cache test
CachedNever(cache) == FALSE

\* detectRsync with the cache test `if (rsyncAvailable)`: an unavailable
\* answer is not reused
CachedOnlyTrue(cache) == cache = "true"

\* copy.ts:14-16: whether detectRsync answers from the cache
Cached(cache) == cache # "null"

\* How the probe `which rsync` of copy.ts:19 ends: the shell resolves the
\* name on the host and throws on a nonzero exit; the host does not change
\* during a run, so the probe ends the same way each time
ProbeOutcomes(inst) == IF inst THEN {"exit0"} ELSE {"throws"}

\* detectRsync without the assignment of copy.ts:22: a probe error leaves
\* the cache as it was found
ProbeValueNoCatch(outcome) == IF outcome = "exit0" THEN "true" ELSE "null"

\* copy.ts:18-23: the value the probe's end writes to the cache
ProbeValue(outcome) == IF outcome = "exit0" THEN "true" ELSE "false"

\* setRsyncAvailable with `rsyncAvailable = value ?? rsyncAvailable`: null
\* does not clear the cache
StoredUnlessNull(cache, value) == IF value = "null" THEN cache ELSE value

\* copy.ts:163: what setRsyncAvailable(value) leaves in the cache
Stored(cache, value) == value

\* copy.ts:37: the parent directory of the target is made
MkdirParent(f, t) == MkdirSync(f, Comps(Dirname(t)))

\* copyWithNodeFs without the removal of the target
RemoveTargetSkipped(f, t) == {Outcome(TRUE, f)}

\* copy.ts:57-64: copyWithNodeFs removes what is at the target
RemoveTarget(f, t) ==
    IF ExistsSync(f, t)
    THEN IF LstatIsLinkOrFile(f, t)
         THEN UnlinkSync(f, Comps(t))
         ELSE RmSync(f, Comps(t))
    ELSE {Outcome(TRUE, f)}

\* copy.ts:70
CopyTree(f, s, t) == CpSync(f, Comps(s), Comps(t))

\* rsync run without --delete: entries the source lacks stay
RunRsyncNoDelete(f, s, t, inst) ==
    LET d == Follow(f, Comps(t))
        entries == {r \in RelsUnder(d) : EntryOf(f, Comps(s), r) # "absent"}
    IN  IF inst /\ f[d] \in {"absent", "dir"} /\ f[ParentOf(d)] = "dir"
        THEN {Outcome(TRUE, Overlay(f, Comps(s), d, entries))}
        ELSE {Outcome(FALSE, f)}

\* copy.ts:41-45
RunRsync(f, s, t, inst) == RsyncProcess(f, Follow(f, Comps(s)), Comps(t), inst)

\* syncDirectory without the removal of a partial target
CleanupTargetSkipped(f, t) == {[what |-> "nothing", fs |-> f]}

\* copy.ts:132-143: the removal of a partial target; what it did and the
\* filesystem it leaves (its errors are swallowed)
CleanupTarget(f, t) ==
    IF ExistsSync(f, t)
    THEN {[what |-> IF o.ok THEN "removed" ELSE "threw", fs |-> o.fs] :
            o \in (IF LstatIsLinkOrFile(f, t)
                   THEN UnlinkSync(f, Comps(t))
                   ELSE RmSync(f, Comps(t)))}
    ELSE {[what |-> "nothing", fs |-> f]}

\* A cleanup whose own error escapes
RethrownCleanupError(fallbackError, cleanupWhat) ==
    IF cleanupWhat = "threw" THEN "cleanupError" ELSE fallbackError

\* copy.ts:144: the error the caller gets after the cleanup
Rethrown(fallbackError, cleanupWhat) == fallbackError

\* syncDirectory without the return of copy.ts:118
AfterRsyncNoReturn(ok) == "fbRemove"

\* syncDirectory without the catch of copy.ts:119
AfterRsyncNoCatch(ok) == "done"

\* copy.ts:116-123: where the call goes once copyWithRsync has ended: it
\* returns on success, and falls through to the fallback on an error
AfterRsync(ok) == IF ok THEN "done" ELSE "fbRemove"

\* syncDirectory with a catch that marks rsync unavailable once it failed
CacheAfterRsyncDemoted(cache, ok) == IF ok THEN cache ELSE "false"

\* copy.ts:116-123: what the rsync attempt leaves in the cache: neither the
\* return nor the catch assigns rsyncAvailable
CacheAfterRsync(cache, ok) == cache

\* syncDirectory with the fallback tried first whatever detectRsync answered
AfterDetectFallbackFirst(has) == "fbRemove"

\* syncDirectory without the test of copy.ts:114
AfterDetectAlwaysRsync(has) == "rsyncStart"

\* copy.ts:114: where the call goes once detectRsync has answered
AfterDetect(has) == IF has = "true" THEN "rsyncStart" ELSE "fbRemove"

\* The positions of a call in which it runs without yielding: no other
\* operation of the process can run until it yields or ends
SyncSection == {"fbRemove", "fbMkdir", "fbCopy", "cleanup"}
InSyncSection == pc \in SyncSection

Idle == [pc |-> "idle", ret |-> "none", probed |-> FALSE]

\* copy.ts:19: the calls suspended at the probe
Pending ==
    Cardinality({d \in DOMAIN det : det[d].pc = "probing"})
        + (IF pc = "probing" THEN 1 ELSE 0)

\* A probe starts: it overlaps the probes still running
ProbeStarts ==
    /\ overlap' = (overlap \/ Pending >= 1)
    /\ UNCHANGED <<forced, writes>>

\* A probe ends and writes the cache
ProbeWrites ==
    /\ writes' = writes + 1
    /\ UNCHANGED <<forced, overlap>>

\* A reset or an override: the probes still running will write after it
CacheForced(value) ==
    /\ forced' = value
    /\ writes' = 0
    /\ overlap' = (Pending >= 2)

-----------------------------------------------------------------------------
(* syncDirectory *)

\* copy.ts:87-112 and 13-19: the checks, then detectRsync up to its answer
\* from the cache or to the start of its probe
SyncStart ==
    /\ pc \in {"idle", "done"}
    /\ calls < MaxCalls
    /\ calls' = calls + 1
    /\ fs0' = fs
    /\ result' = "none"
    /\ rsyncErr' = "none"
    /\ fbErr' = "none"
    /\ cleanup' = "none"
    /\ debugLog' = <<>>
    /\ errorLog' = <<>>
    /\ rsyncCalls' = 0
    /\ fsCalls' = 0
    /\ thrown' = IF Validate(fs, source, target) = "ok" THEN "none"
                 ELSE Validate(fs, source, target)
    /\ IF Validate(fs, source, target) # "ok"
       THEN pc' = "done" /\ hasRsync' = "none"
       ELSE IF Cached(rsyncAvailable)
            THEN pc' = "decide" /\ hasRsync' = rsyncAvailable
            ELSE pc' = "probing" /\ hasRsync' = "none"
    /\ IF Validate(fs, source, target) = "ok" /\ ~Cached(rsyncAvailable)
       THEN ProbeStarts
       ELSE UNCHANGED history
    /\ UNCHANGED <<fs, installed, rsyncAvailable, source, target,
                   firstContents, det>>

\* copy.ts:19-25: the probe of the call's detectRsync ends; the cache is
\* written and returned
SyncProbeDone ==
    /\ pc = "probing"
    /\ \E o \in ProbeOutcomes(installed) :
        /\ rsyncAvailable' = ProbeValue(o)
        /\ hasRsync' = ProbeValue(o)
    /\ pc' = "decide"
    /\ ProbeWrites
    /\ UNCHANGED <<fs, installed, source, target, result, thrown, rsyncErr,
                   fbErr, cleanup, debugLog, errorLog, rsyncCalls, fsCalls,
                   fs0, calls, firstContents, det>>

\* copy.ts:114-116 and 35-41: with rsync, copyWithRsync makes the target's
\* parent and starts the rsync process; without, the fallback starts
SyncDecide ==
    /\ pc = "decide"
    /\ IF AfterDetect(hasRsync) = "rsyncStart"
       THEN /\ rsyncCalls' = rsyncCalls + 1
            /\ \E o \in MkdirParent(fs, target) :
                /\ fs' = o.fs
                /\ IF o.ok
                   THEN /\ pc' = "rsync"
                        /\ UNCHANGED <<rsyncAvailable, rsyncErr, errorLog>>
                   ELSE /\ pc' = AfterRsync(FALSE)
                        /\ rsyncAvailable' =
                                CacheAfterRsync(rsyncAvailable, FALSE)
                        /\ rsyncErr' = "rsyncMkdirError"
                        /\ errorLog' = Append(errorLog, "rsync failed")
       ELSE /\ pc' = AfterDetect(hasRsync)
            /\ UNCHANGED <<fs, rsyncAvailable, rsyncCalls, rsyncErr,
                           errorLog>>
    /\ UNCHANGED <<installed, source, target, hasRsync,
                   result, thrown, fbErr, cleanup, debugLog, fsCalls, fs0,
                   calls, firstContents, det>>
    /\ UNCHANGED history

\* What the first call left at the target and by which method, when it
\* succeeded
NoteFirst(f, method) ==
    IF calls = 1 THEN <<[tree |-> TreeAt(f, target), method |-> method]>>
    ELSE firstContents

\* copy.ts:41-45 and 117-123: the rsync process ends
SyncRsyncDone ==
    /\ pc = "rsync"
    /\ \E o \in RunRsync(fs, source, target, installed) :
        /\ fs' = o.fs
        /\ pc' = AfterRsync(o.ok)
        /\ rsyncAvailable' = CacheAfterRsync(rsyncAvailable, o.ok)
        /\ IF o.ok
           THEN /\ debugLog' = Append(debugLog, "using rsync")
                /\ result' = "rsync"
                /\ firstContents' = NoteFirst(o.fs, "rsync")
                /\ UNCHANGED <<rsyncErr, errorLog>>
           ELSE /\ rsyncErr' = "rsyncExitError"
                /\ errorLog' = Append(errorLog, "rsync failed")
                /\ UNCHANGED <<debugLog, result, firstContents>>
    /\ UNCHANGED <<installed, source, target, hasRsync,
                   thrown, fbErr, cleanup, rsyncCalls, fsCalls, fs0, calls, det>>
    /\ UNCHANGED history

\* copy.ts:127 and 57-64: copyWithNodeFs is entered and removes the target
FbRemove ==
    /\ pc = "fbRemove"
    /\ fsCalls' = fsCalls + 1
    /\ \E o \in RemoveTarget(fs, target) :
        /\ fs' = o.fs
        /\ IF o.ok
           THEN pc' = "fbMkdir" /\ UNCHANGED fbErr
           ELSE pc' = "cleanup" /\ fbErr' = "removeError"
    /\ UNCHANGED <<installed, rsyncAvailable, source, target, hasRsync,
                   result, thrown, rsyncErr, cleanup, debugLog, errorLog,
                   rsyncCalls, fs0, calls, firstContents, det>>
    /\ UNCHANGED history

\* copy.ts:67
FbMkdir ==
    /\ pc = "fbMkdir"
    /\ \E o \in MkdirParent(fs, target) :
        /\ fs' = o.fs
        /\ IF o.ok
           THEN pc' = "fbCopy" /\ UNCHANGED fbErr
           ELSE pc' = "cleanup" /\ fbErr' = "mkdirError"
    /\ UNCHANGED <<installed, rsyncAvailable, source, target, hasRsync,
                   result, thrown, rsyncErr, cleanup, debugLog, errorLog,
                   rsyncCalls, fsCalls, fs0, calls, firstContents,
                   det>>
    /\ UNCHANGED history

\* copy.ts:70 and 128-129
FbCopy ==
    /\ pc = "fbCopy"
    /\ \E o \in CopyTree(fs, source, target) :
        /\ fs' = o.fs
        /\ IF o.ok
           THEN /\ debugLog' = Append(debugLog, "using fs.cpSync")
                /\ result' = "fs"
                /\ pc' = "done"
                /\ firstContents' = NoteFirst(o.fs, "fs")
                /\ UNCHANGED fbErr
           ELSE /\ pc' = "cleanup"
                /\ fbErr' = "copyError"
                /\ UNCHANGED <<debugLog, result, firstContents>>
    /\ UNCHANGED <<installed, rsyncAvailable, source, target, hasRsync,
                   thrown, rsyncErr, cleanup, errorLog, rsyncCalls, fsCalls,
                   fs0, calls, det>>
    /\ UNCHANGED history

\* copy.ts:130-145
Cleanup ==
    /\ pc = "cleanup"
    /\ \E o \in CleanupTarget(fs, target) :
        /\ fs' = o.fs
        /\ cleanup' = o.what
        /\ thrown' = Rethrown(fbErr, o.what)
    /\ pc' = "done"
    /\ UNCHANGED <<installed, rsyncAvailable, source, target, hasRsync,
                   result, rsyncErr, fbErr, debugLog, errorLog, rsyncCalls,
                   fsCalls, fs0, calls, firstContents, det>>
    /\ UNCHANGED history

-----------------------------------------------------------------------------
(* The cache operations, called from elsewhere in the process *)

\* copy.ts:152-154
ResetRsyncCache ==
    /\ ~InSyncSection
    /\ rsyncAvailable' = "null"
    /\ CacheForced("null")
    /\ UNCHANGED <<fs, installed, source, target, pc, hasRsync, result,
                   thrown, rsyncErr, fbErr, cleanup, debugLog, errorLog,
                   rsyncCalls, fsCalls, fs0, calls, firstContents,
                   det>>

\* copy.ts:162-164
SetRsyncAvailable(value) ==
    /\ ~InSyncSection
    /\ rsyncAvailable' = Stored(rsyncAvailable, value)
    /\ CacheForced(value)
    /\ UNCHANGED <<fs, installed, source, target, pc, hasRsync, result,
                   thrown, rsyncErr, fbErr, cleanup, debugLog, errorLog,
                   rsyncCalls, fsCalls, fs0, calls, firstContents,
                   det>>

\* copy.ts:13-19: a direct call of detectRsync answers from the cache or
\* starts its probe
DetectRsync(d) ==
    /\ ~InSyncSection
    /\ det[d].pc \in {"idle", "done"}
    /\ det' = [det EXCEPT ![d] =
                IF Cached(rsyncAvailable)
                THEN [pc |-> "done", ret |-> rsyncAvailable, probed |-> FALSE]
                ELSE [pc |-> "probing", ret |-> "none", probed |-> TRUE]]
    /\ IF Cached(rsyncAvailable) THEN UNCHANGED history ELSE ProbeStarts
    /\ UNCHANGED <<fs, installed, rsyncAvailable, source, target, pc,
                   hasRsync, result, thrown, rsyncErr, fbErr, cleanup,
                   debugLog, errorLog, rsyncCalls, fsCalls, fs0, calls, firstContents>>

\* copy.ts:19-25: the probe of a direct call ends
DetectProbeDone(d) ==
    /\ ~InSyncSection
    /\ det[d].pc = "probing"
    /\ \E o \in ProbeOutcomes(installed) :
        /\ rsyncAvailable' = ProbeValue(o)
        /\ det' = [det EXCEPT ![d] =
                    [pc |-> "done", ret |-> ProbeValue(o), probed |-> TRUE]]
    /\ ProbeWrites
    /\ UNCHANGED <<fs, installed, source, target, pc, hasRsync, result,
                   thrown, rsyncErr, fbErr, cleanup, debugLog, errorLog,
                   rsyncCalls, fsCalls, fs0, calls, firstContents>>

-----------------------------------------------------------------------------
(* Initial states: a filesystem, the arguments of the call, the cache *)

\* A tree: the node itself (at <<>>) and what is below it
MkTree(kind, below) ==
    [r \in Rels |->
        IF r = <<>> THEN kind
        ELSE IF \E e \in below : e[1] = r
             THEN (CHOOSE e \in below : e[1] = r)[2]
             ELSE "absent"]

\* f with tree t put at p (and the directories on the way to p made), or
\* with nothing at p when t is absent
Put(f, p, t) ==
    [q \in Paths |->
        IF IsPrefix(p, q)
        THEN IF SubSeq(q, Len(p) + 1, Len(q)) \in Rels
             THEN t[SubSeq(q, Len(p) + 1, Len(q))]
             ELSE "absent"
        ELSE IF IsPrefix(q, p) /\ t[<<>>] # "absent" THEN "dir"
        ELSE f[q]]

EmptyFs == [q \in Paths |-> IF q = <<>> THEN "dir" ELSE "absent"]

SourceTrees ==
    { MkTree("absent", {}),
      MkTree("x", {}),
      MkTree("link", {}),
      MkTree("dir", {}),
      MkTree("dir", {<<(<<A>>), "x">>, <<(<<AB>>), "y">>}),
      MkTree("dir", {<<(<<A>>), "dir">>, <<(<<A, A>>), "x">>}) }

TargetTrees ==
    { MkTree("absent", {}),
      MkTree("y", {}),
      MkTree("link", {}),
      MkTree("dir", {}),
      MkTree("dir", {<<(<<A>>), "y">>, <<(<<B>>), "dir">>, <<(<<B, A>>), "y">>}) }

\* What is at LinkTarget, the place the links refer to
OtherTrees ==
    { MkTree("absent", {}),
      MkTree("y", {}),
      MkTree("dir", {<<(<<B>>), "y">>}) }

\* The (source, target) arguments: siblings that share a string prefix,
\* with and without trailing separators, the target inside the source, the
\* source inside the target, the same path twice, a target below LinkTarget
Arguments ==
    { << <<"/", "a">>,           <<"/", "a", "b">> >>,
      << <<"/", "a", "/">>,      <<"/", "a", "b", "/">> >>,
      << <<"/", "a">>,           <<"/", "a", "/", "a">> >>,
      << <<"/", "a", "/", "a">>, <<"/", "a">> >>,
      << <<"/", "a">>,           <<"/", "a", "/">> >>,
      << <<"/", "a">>,           <<"/", "b", "/", "a">> >> }

\* Nothing on the way to p is a symbolic link
NoLinkAbove(f, p) == \A i \in 0..(Len(p) - 1) : f[SubSeq(p, 1, i)] # "link"

\* The source's tree fits below the target
Fits(f, src, dst) ==
    \A r \in Rels : EntryOf(f, src, r) # "absent" => (dst \o r) \in Paths

InitFs(s, t) ==
    { f \in { Put(Put(Put(EmptyFs, LinkTarget, ot), Comps(t), tt), Comps(s), st) :
                ot \in OtherTrees, tt \in TargetTrees, st \in SourceTrees } :
        /\ WellFormed(f)
        /\ \A p \in Paths : f[p] = "link" => ~IsPrefix(LinkTarget, p)
        /\ NoLinkAbove(f, Comps(s)) /\ NoLinkAbove(f, Comps(t))
        /\ (f[Comps(s)] = "link" => f[LinkTarget] # "dir")
        /\ Fits(f, Comps(s), Follow(f, Comps(t))) }

\* Everything but the filesystem, the arguments and the direct callers
InitCall ==
    /\ installed \in BOOLEAN
    /\ rsyncAvailable \in {"null", "true", "false"}
    /\ pc = "idle"
    /\ hasRsync = "none"
    /\ result = "none"
    /\ thrown = "none"
    /\ rsyncErr = "none"
    /\ fbErr = "none"
    /\ cleanup = "none"
    /\ debugLog = <<>>
    /\ errorLog = <<>>
    /\ rsyncCalls = 0
    /\ fsCalls = 0
    /\ fs0 = fs
    /\ calls = 0
    /\ firstContents = <<>>
    /\ forced = rsyncAvailable
    /\ writes = 0
    /\ overlap = FALSE

\* The calls of syncDirectory over every filesystem and argument pair, the
\* cache reset and overridden at any yield of the call
Init ==
    /\ \E a \in Arguments :
        /\ source = a[1]
        /\ target = a[2]
        /\ fs \in InitFs(a[1], a[2])
    /\ det = [d \in {} |-> Idle]
    /\ InitCall

SyncNext ==
    \/ SyncStart
    \/ SyncProbeDone
    \/ SyncDecide
    \/ SyncRsyncDone
    \/ FbRemove
    \/ FbMkdir
    \/ FbCopy
    \/ Cleanup

Next ==
    \/ SyncNext
    \/ ResetRsyncCache
    \/ \E v \in {"null", "true", "false"} : SetRsyncAvailable(v)

Spec == Init /\ [][Next]_vars

\* The direct callers of detectRsync
Detectors == {"d1", "d2"}

\* The cache under every interleaving of direct detectRsync calls, reset,
\* override and syncDirectory, over the sibling arguments
InitCache ==
    /\ source = <<"/", "a">>
    /\ target = <<"/", "a", "b">>
    /\ fs \in { f \in InitFs(source, target) :
                  /\ f[LinkTarget] = "absent"
                  /\ f[<<A, A>>] = "x"
                  /\ f[<<AB>>] = "dir" /\ f[<<AB, A>>] = "absent" }
    /\ det = [d \in Detectors |-> Idle]
    /\ InitCall

NextCache ==
    \/ SyncNext
    \/ ResetRsyncCache
    \/ \E v \in {"null", "true", "false"} : SetRsyncAvailable(v)
    \/ \E d \in DOMAIN det : DetectRsync(d)
    \/ \E d \in DOMAIN det : DetectProbeDone(d)

SpecCache == InitCache /\ [][NextCache]_vars

\* The calls of syncDirectory over sibling arguments and a target inside
\* the source, with the source absent or an empty directory and the target
\* absent, a file, a dangling link or an empty directory
InitLive ==
    /\ \E a \in { << <<"/", "a">>, <<"/", "a", "b">> >>,
                  << <<"/", "a">>, <<"/", "a", "/", "a">> >> } :
        /\ source = a[1]
        /\ target = a[2]
        /\ fs \in { f \in InitFs(a[1], a[2]) :
                      /\ f[LinkTarget] = "absent"
                      /\ f[<<A>>] \in {"absent", "dir"}
                      /\ f[<<A, A>>] = "absent"
                      /\ f[<<AB, A>>] = "absent" }
    /\ det = [d \in {} |-> Idle]
    /\ InitCall

\* The event loop resumes a call whose awaited process has ended, and the
\* probe and the rsync process end: a step of the running call is taken
\* if it stays possible
SpecLive == InitLive /\ [][Next]_vars /\ WF_vars(SyncNext)

TypeOK ==
    /\ fs \in [Paths -> Nodes]
    /\ WellFormed(fs)
    /\ rsyncAvailable \in {"null", "true", "false"}
    /\ pc \in {"idle", "probing", "decide", "rsync", "done"} \cup SyncSection
    /\ result \in {"none", "rsync", "fs"}
    /\ calls \in 0..MaxCalls

-----------------------------------------------------------------------------
(* Properties *)

ValidationErrors ==
    {"SourceNotFound", "SourceNotDirectory", "TargetInsideSource",
     "SourceInsideTarget"}

RsyncErrors == {"rsyncMkdirError", "rsyncExitError"}

FallbackErrors == {"removeError", "mkdirError", "copyError"}

\* Neither resolved path is the other or lies below it
NonOverlapping(s, t) ==
    /\ ~IsPrefix(Comps(s), Comps(t))
    /\ ~IsPrefix(Comps(t), Comps(s))

\* Strict descendant: the resolved form of child begins with the resolved
\* form of parent followed by a separator
StrictDescendant(child, parent) ==
    StartsWith(Resolve(child), Resolve(parent) \o <<Sep>>)

Succeeded == pc = "done" /\ result \in {"rsync", "fs"}

\* The call has ended without having touched anything
RejectedUntouched ==
    /\ pc = "done"
    /\ result = "none"
    /\ fs = fs0
    /\ rsyncCalls = 0
    /\ fsCalls = 0
    /\ debugLog = <<>>
    /\ errorLog = <<>>

\* C1: a call on a source directory and a target that does not overlap it,
\* whatever was at the target before, that returns a method (rsync or fs)
\* leaves the target a directory whose entries are exactly the source's.
C1_Mirror ==
    (Succeeded /\ NonOverlapping(source, target))
        => /\ TreeAt(fs, target) = TreeAt(fs, source)
           /\ TreeAt(fs, source) = TreeAt(fs0, source)

\* C1 witness: the fallback returned for a target that held an entry the
\* source lacks and a file whose content differed
C1_Witness ==
    /\ Succeeded /\ result = "fs" /\ calls = 1
    /\ NonOverlapping(source, target)
    /\ fs0[Comps(target) \o <<B>>] = "dir"
    /\ fs0[Comps(target) \o <<A>>] = "y"
    /\ fs[Comps(target) \o <<A>>] = "x"

\* C2: when the source is a directory and the target is a strict descendant
\* of it, the call ends with TargetInsideSource, and with SourceInsideTarget
\* when the source is a strict descendant of the target; it ends in its
\* first step, the filesystem as it was, no probe, no rsync, no fallback.
C2_OverlapRejected ==
    (calls >= 1 /\ StatIsDirectory(fs0, source))
        => /\ StrictDescendant(target, source)
                => (thrown = "TargetInsideSource" /\ RejectedUntouched)
           /\ StrictDescendant(source, target)
                => (thrown = "SourceInsideTarget" /\ RejectedUntouched)

\* C2 witness: a call whose source directory lies inside its target has ended
C2_Witness ==
    /\ calls = 1
    /\ StatIsDirectory(fs0, source)
    /\ StrictDescendant(source, target)
    /\ fs0[Comps(target) \o <<B>>] = "dir"
    /\ thrown = "SourceInsideTarget"

\* C3: the step that starts a call on a missing source ends it with
\* SourceNotFound, on a source that is no directory with SourceNotDirectory,
\* also when source and target overlap; that step changes neither the
\* filesystem nor the cache and starts no probe, no rsync and no fallback.
C3_SourceRejected ==
    [][(calls' = calls + 1)
        => /\ ~ExistsSync(fs, source)
                => (thrown' = "SourceNotFound" /\ RejectedUntouched'
                    /\ fs' = fs /\ rsyncAvailable' = rsyncAvailable)
           /\ (ExistsSync(fs, source) /\ ~StatIsDirectory(fs, source))
                => (thrown' = "SourceNotDirectory" /\ RejectedUntouched'
                    /\ fs' = fs /\ rsyncAvailable' = rsyncAvailable)]_vars

\* C3 witness: a source that is a file, the target a path inside it, the
\* cache unknown
C3_Witness ==
    /\ calls = 1 /\ pc = "done"
    /\ thrown = "SourceNotDirectory"
    /\ StrictDescendant(target, source)
    /\ rsyncAvailable = "null"

\* C4: in a call that passed the checks, detectRsync answered available and
\* copyWithRsync did not fail: the fallback is never entered, nothing goes to
\* the error sink, and the call ends with method rsync and the rsync message
\* alone in the debug sink.
C4_RsyncOnly ==
    (calls >= 1 /\ hasRsync = "true" /\ rsyncErr = "none")
        => /\ fsCalls = 0
           /\ errorLog = <<>>
           /\ pc \in {"decide", "rsync", "done"}
           /\ pc = "done" => /\ result = "rsync"
                             /\ thrown = "none"
                             /\ debugLog = <<"using rsync">>

\* C4 witness: a call has returned rsync
C4_Witness ==
    /\ pc = "done" /\ result = "rsync" /\ rsyncCalls = 1
    /\ fs0[Comps(target) \o <<B>>] = "dir"

\* C5: in a call that passed the checks and to which detectRsync answered
\* unavailable (detected or forced), copyWithRsync is never called, the
\* fallback is what runs, and a call that returns returns method fs.
C5_Unavailable ==
    (calls >= 1 /\ hasRsync = "false")
        => /\ rsyncCalls = 0
           /\ rsyncErr = "none" /\ errorLog = <<>>
           /\ result # "rsync"
           /\ pc = "done" => /\ fsCalls = 1
                             /\ thrown = "none" => result = "fs"

\* C5 witness: rsync is installed, the call was answered unavailable and
\* returned fs
C5_Witness ==
    /\ pc = "done" /\ hasRsync = "false" /\ installed
    /\ result = "fs" /\ fsCalls = 1

\* C6: once copyWithRsync has failed (the parent directory could not be
\* made, the process exited nonzero or could not be run), exactly one message
\* is in the error sink, the call goes on into the fallback, and it ends
\* with method fs when the fallback succeeds and with the fallback's error
\* otherwise, never with the rsync error.
C6_RsyncFailureFallsBack ==
    (rsyncErr # "none")
        => /\ Len(errorLog) = 1
           /\ rsyncCalls = 1
           /\ pc \in SyncSection \cup {"done"}
           /\ pc = "done" => /\ fsCalls = 1
                             /\ result # "rsync"
                             /\ thrown \notin RsyncErrors
                             /\ fbErr = "none" => (result = "fs" /\ thrown = "none")
                             /\ fbErr # "none" => (result = "none" /\ thrown = fbErr)

\* C6 witness: the rsync process failed and the fallback returned
C6_Witness ==
    /\ pc = "done" /\ rsyncErr = "rsyncExitError"
    /\ result = "fs" /\ Len(errorLog) = 1

\* C7: when the fallback copy has failed the target's removal is attempted
\* (nothing there, removed, or the removal threw) and the call ends with the
\* fallback's own error, whatever the cleanup did and whether or not rsync
\* failed before; it returns no method.
C7_FallbackErrorRethrown ==
    (pc = "done" /\ fbErr # "none")
        => /\ thrown = fbErr
           /\ thrown \in FallbackErrors
           /\ result = "none"
           /\ cleanup \in {"nothing", "removed", "threw"}
           /\ cleanup = "removed" => fs[Comps(target)] = "absent"
           /\ cleanup = "nothing" => ~ExistsSync(fs, target)
           /\ cleanup = "threw" => fs[Comps(target)] # "absent"

\* C7 witness: rsync failed, then the copy failed, then the cleanup threw
C7_Witness ==
    /\ pc = "done" /\ rsyncErr = "rsyncExitError"
    /\ fbErr = "copyError" /\ cleanup = "threw"
    /\ thrown = "copyError"

\* C8: in a step taken while the cache holds available or unavailable, no
\* detectRsync call (direct, or the one of syncDirectory) starts a probe, and
\* a call that starts returns the cached value and leaves the cache alone.
C8_NoReprobe ==
    [][(rsyncAvailable # "null")
        => /\ \A d \in DOMAIN det :
                (det[d].pc # "probing" /\ det'[d] # det[d])
                    => /\ det'[d] = [pc |-> "done", ret |-> rsyncAvailable,
                                     probed |-> FALSE]
                       /\ rsyncAvailable' = rsyncAvailable
           /\ pc # "probing" => pc' # "probing"
           /\ (calls' = calls + 1 /\ thrown' = "none")
                => /\ pc' = "decide"
                   /\ hasRsync' = rsyncAvailable
                   /\ rsyncAvailable' = rsyncAvailable]_vars

\* C8 witness: one direct call probed, a later one was answered from the
\* cache, and so was the call of syncDirectory
C8_Witness ==
    /\ det["d1"] = [pc |-> "done", ret |-> "true", probed |-> TRUE]
    /\ det["d2"] = [pc |-> "done", ret |-> "true", probed |-> FALSE]
    /\ pc = "decide" /\ hasRsync = "true"

\* C9: for a target that does not overlap the source, a call that succeeds
\* after the first call succeeded leaves the target as the first call left
\* it, whichever strategies the calls completed by.
C9_Idempotent ==
    (Succeeded /\ calls >= 2 /\ firstContents # <<>>
       /\ NonOverlapping(source, target))
        => TreeAt(fs, target) = firstContents[1].tree

\* C9 witness: the first call returned rsync, the second fs, on a source
\* with entries
C9_Witness ==
    /\ Succeeded /\ calls = 2 /\ firstContents # <<>>
    /\ NonOverlapping(source, target)
    /\ firstContents[1].method = "rsync" /\ result = "fs"
    /\ fs[Comps(source) \o <<A>>] = "x"

\* C10: a call that ended with a validation error left the filesystem as it
\* was; a call that ended with the fallback's error after a cleanup that did
\* not throw left nothing that exists at the target path: no entry at all,
\* or the dangling link that was there before the call, untouched.
C10_FailedCallTarget ==
    /\ (pc = "done" /\ thrown \in ValidationErrors) => fs = fs0
    /\ (pc = "done" /\ fbErr # "none" /\ cleanup # "threw")
        => /\ ~ExistsSync(fs, target)
           /\ \/ fs[Comps(target)] = "absent"
              \/ /\ fs[Comps(target)] = "link"
                 /\ fs0[Comps(target)] = "link"
                 /\ ~ExistsSync(fs0, target)

\* C10 witness: rsync failed, the copy failed on a target that was a
\* directory with entries, and the cleanup removed what the copy had written
C10_Witness ==
    /\ pc = "done" /\ rsyncErr = "rsyncExitError"
    /\ fbErr = "copyError" /\ cleanup = "removed"
    /\ fs0[Comps(target) \o <<B>>] = "dir"
    /\ fs[Comps(target)] = "absent"

-----------------------------------------------------------------------------
(* Overlapping detections *)

\* The direct calls of detectRsync that ran the probe and have returned
Probed == {d \in DOMAIN det : det[d].pc = "done" /\ det[d].probed}

\* C11: detectRsync calls that found the cache unknown and overlap at the
\* probe all return the same value, available or unavailable, and as long
\* as no reset or override follows the probes the cache holds that value:
\* it is never left unknown and never differs from what a call returned
C11_Converge ==
    /\ \A d \in Probed : det[d].ret \in {"true", "false"}
    /\ \A d, e \in Probed : det[d].ret = det[e].ret
    /\ writes >= 1 =>
        /\ rsyncAvailable \in {"true", "false"}
        /\ \A d \in Probed : det[d].ret = rsyncAvailable

\* Both direct calls probed concurrently, both probes have written, and
\* the cache holds what they returned
C11_Witness ==
    /\ Probed = Detectors
    /\ overlap
    /\ writes >= 2
    /\ det["d1"].ret = rsyncAvailable
    /\ det["d2"].ret = rsyncAvailable

-----------------------------------------------------------------------------
(* Cache writes per detection cycle *)

\* C12, as stated: in a detection cycle (from a reset, an override with
\* null or the start, where the cache is unknown) the probes write the
\* cache at most one time, however the detectRsync calls overlap
C12_ExactlyOnce == forced = "null" => writes <= 1

\* C12, amended: each detectRsync call that found the cache unknown writes
\* the cache once, when its probe ends.  Calls that follow one another write
\* it exactly once in the cycle; calls that overlap at the probe write it
\* once each.  A write stores true or false: a probe error stores false
C12_OncePerProbe ==
    /\ ~overlap => writes <= 1
    /\ (~overlap /\ forced = "null" /\ rsyncAvailable # "null") => writes = 1
    /\ writes + Pending <= Cardinality(DOMAIN det) + 1
    /\ writes >= 1 => rsyncAvailable = (IF installed THEN "true" ELSE "false")

\* On a host without rsync two calls followed one another in a cycle: the
\* first probed, the probe's error became false, the second answered from
\* the cache, and the cache was written once
C12_Witness ==
    /\ ~installed
    /\ forced = "null" /\ ~overlap /\ writes = 1
    /\ det["d1"] = [pc |-> "done", ret |-> "false", probed |-> TRUE]
    /\ det["d2"] = [pc |-> "done", ret |-> "false", probed |-> FALSE]

-----------------------------------------------------------------------------
(* Reset and override *)

\* A step that starts a direct detectRsync call of d
StartsDetect(d) == det[d].pc # "probing" /\ det'[d] # det[d]

\* A step that starts a syncDirectory call which passes the checks
StartsSync == calls' = calls + 1 /\ thrown' = "none"

\* C13: after resetRsyncCache() or setRsyncAvailable(null) the cache is
\* unknown and the next detectRsync call runs the probe; after
\* setRsyncAvailable(v), v true or false, the cache is v and the next
\* detectRsync call returns v without a probe, whatever the cache held and
\* whether or not the host has rsync.  (Next: before any probe that was
\* already running ends.)
C13_ForcedNext ==
    [][ /\ writes' = 0 => rsyncAvailable' = forced'
        /\ writes = 0 =>
            /\ \A d \in DOMAIN det : StartsDetect(d) =>
                  IF forced = "null"
                  THEN det'[d].pc = "probing"
                  ELSE det'[d] = [pc |-> "done", ret |-> forced,
                                  probed |-> FALSE]
            /\ StartsSync =>
                  IF forced = "null"
                  THEN pc' = "probing"
                  ELSE pc' = "decide" /\ hasRsync' = forced ]_vars

\* On a host without rsync the cache was forced to true while d2 was
\* suspended at its probe, and d1 and syncDirectory got true without probing
C13_Witness ==
    /\ ~installed /\ forced = "true" /\ writes = 0
    /\ det["d2"].pc = "probing"
    /\ det["d1"] = [pc |-> "done", ret |-> "true", probed |-> FALSE]
    /\ pc = "decide" /\ hasRsync = "true"

-----------------------------------------------------------------------------
(* The fallback's removal of the target *)

\* C14: when the fallback's recursive copy begins (copy.ts:70), whatever
\* occupied the target path (a file, a directory, or a symbolic link with
\* or without a referent) has been removed: the target path is absent and
\* its parent is a directory
C14_TargetCleared ==
    pc = "fbCopy" =>
        /\ fs[Comps(target)] = "absent"
        /\ fs[ParentOf(Comps(target))] = "dir"

\* What holds instead: the one entry left in place is a symbolic link
\* whose referent does not exist, as it was when the call started
C14_ClearedButDangling ==
    pc = "fbCopy" =>
        /\ fs[ParentOf(Comps(target))] = "dir"
        /\ \/ fs[Comps(target)] = "absent"
           \/ /\ fs[Comps(target)] = "link" /\ fs0[Comps(target)] = "link"
              /\ fs[LinkTarget] = "absent"

-----------------------------------------------------------------------------
(* The order of a call *)

\* The positions of a call, in the order of the code
Rank(p) ==
    CASE p = "idle" -> 0
      [] p = "probing" -> 1
      [] p = "decide" -> 2
      [] p = "rsync" -> 3
      [] p = "fbRemove" -> 4
      [] p = "fbMkdir" -> 5
      [] p = "fbCopy" -> 6
      [] p = "cleanup" -> 7
      [] p = "done" -> 8

\* How a call has ended: by rsync, by the fallback, rejected by the checks
\* before anything ran, or with the fallback's error after the cleanup
Terminal ==
    \/ result = "rsync" /\ thrown = "none" /\ rsyncCalls = 1 /\ fsCalls = 0
    \/ result = "fs" /\ thrown = "none" /\ fsCalls = 1
    \/ /\ result = "none" /\ thrown \in ValidationErrors
       /\ hasRsync = "none" /\ rsyncCalls = 0 /\ fsCalls = 0
    \/ /\ result = "none" /\ thrown \in FallbackErrors
       /\ fsCalls = 1 /\ cleanup # "none"

\* What holds at every position of a call
OrderInv ==
    /\ rsyncCalls <= 1 /\ fsCalls <= 1
    /\ rsyncCalls + fsCalls >= 1 => hasRsync \in {"true", "false"}
    /\ rsyncCalls = 1 => hasRsync = "true"
    /\ (fsCalls = 1 /\ hasRsync = "true") =>
            rsyncCalls = 1 /\ rsyncErr \in RsyncErrors
    /\ pc = "rsync" => fsCalls = 0
    /\ (pc = "done" /\ calls >= 1) => Terminal

\* What holds of every step of a call: it moves forward, and rsync is not
\* started once the fallback has been
OrderStep ==
    /\ (calls' = calls /\ pc' # pc) => Rank(pc') > Rank(pc)
    /\ rsyncCalls' > rsyncCalls => fsCalls = 0 /\ fsCalls' = 0

\* C15: every call goes from its checks to detectRsync, then to rsync at
\* most once, then to the fallback at most once, never backwards; the
\* fallback starts before rsync only if rsync is unavailable, rsync never
\* starts after the fallback; and the call eventually ends, by rsync, by
\* the fallback, with a validation error or with the fallback's error after
\* the cleanup
C15_Order ==
    /\ []OrderInv
    /\ [][OrderStep]_vars
    /\ (pc \notin {"idle", "done"}) ~> (pc = "done" /\ Terminal)

\* A call tried rsync once, then the fallback once, and ended with the
\* fallback's error after the cleanup
C15_Witness ==
    /\ pc = "done" /\ thrown \in FallbackErrors /\ cleanup # "none"
    /\ rsyncCalls = 1 /\ fsCalls = 1 /\ rsyncErr \in RsyncErrors

-----------------------------------------------------------------------------
(* syncDirectory and the cache *)

\* A step of the syncDirectory call
SyncStep == pc' # pc \/ calls' # calls

\* C16: syncDirectory changes the cache only where the probe of its
\* detectRsync ends.  A call that starts with the cache true or false runs
\* no probe, and no other step of a call changes the cache, whatever the
\* step's outcome: not a failed rsync, not a failed fallback, not the
\* cleanup
C16_CacheFrame ==
    [][ SyncStep =>
          /\ pc # "probing" => rsyncAvailable' = rsyncAvailable
          /\ (calls' # calls /\ rsyncAvailable # "null") => pc' # "probing"
      ]_vars

\* The cache was true and no probe has written it; the call had rsync fail,
\* then the fallback fail, and the cache is still true
C16_Witness ==
    /\ pc = "done" /\ hasRsync = "true"
    /\ rsyncErr = "rsyncExitError" /\ thrown \in FallbackErrors
    /\ forced = "true" /\ writes = 0 /\ rsyncAvailable = "true"

-----------------------------------------------------------------------------
(* The source tree *)

\* C17: during and after a call the source holds what it held when the
\* call started, for every pair of arguments, the same path given twice
\* included, whether the call succeeds, fails or is rejected
C17_SourceKept ==
    calls >= 1 => TreeAt(fs, source) = TreeAt(fs0, source)

\* What holds instead: the source is kept whenever the two arguments do not
\* resolve to the same path
C17_SourceKeptUnlessSame ==
    (calls >= 1 /\ Comps(source) # Comps(target)) =>
        TreeAt(fs, source) = TreeAt(fs0, source)

-----------------------------------------------------------------------------
(* An override and the probes already running *)

\* C18: a value forced with setRsyncAvailable(v), v true or false, is the
\* cache's value until the next reset or override, under every
\* interleaving: a probe that was already running when the override was
\* made does not write over it
C18_ForcedStays ==
    forced \in {"true", "false"} => rsyncAvailable = forced

\* What holds instead: the forced value is the cache's value until a probe
\* that was running ends, and from then on the cache holds the probe's answer
C18_ForcedUntilProbeEnds ==
    forced \in {"true", "false"} =>
        rsyncAvailable = (IF writes = 0 THEN forced
                          ELSE IF installed THEN "true" ELSE "false")
====
